---- MODULE Spec2Model ----
(***************************************************************************)
(* Request validation of td/models/rest/query.py: MarketHoursQuery,        *)
(* OptionChainQuery and PriceHistoryQuery.  One behaviour is the           *)
(* construction of one query record: the fields are validated in their     *)
(* declared order, each by its own field validators, which see the fields  *)
(* validated so far (info.data).                                           *)
(*                                                                         *)
(* Values.  A Python value is a record [k, s, n]: k is its type            *)
(* ("none", "int", "date", "str", "enum"), s the text of a string as a     *)
(* sequence of atoms (an enum member carries its .value there) and n the   *)
(* number of an int or the day of a date.  A string and an enum member     *)
(* with the same text are different values, as for a plain Enum.           *)
(***************************************************************************)
EXTENDS Integers, Sequences, FiniteSets, TLC

VARIABLES model, raw, data, errors, crash, pc

vars == <<model, raw, data, errors, crash, pc>>

\* ---------------------------------------------------------------- bounds
MaxPeriod == 7
MaxFrequency == 2
MaxStrLen == 3
MaxMarkets == 2

\* ---------------------------------------------------------------- values
None == [k |-> "none", s |-> <<>>, n |-> 0]
Absent == [k |-> "absent", s |-> <<>>, n |-> 0]
IntV(i) == [k |-> "int", s |-> <<>>, n |-> i]
DateV(d) == [k |-> "date", s |-> <<>>, n |-> d]
Str(t) == [k |-> "str", s |-> <<t>>, n |-> 0]
Text(a) == [k |-> "str", s |-> a, n |-> 0]
Member(t) == [k |-> "enum", s |-> <<t>>, n |-> 0]

isinstance_Enum(v) == v.k = "enum"
isinstance_str(v) == v.k = "str"
\* member.value
value(v) == [k |-> "str", s |-> v.s, n |-> 0]

\* outcome of one validator call
Ok(v) == [st |-> "ok", val |-> v, err |-> ""]
ValueError(e) == [st |-> "err", val |-> None, err |-> e]
Raise(e) == [st |-> "crash", val |-> None, err |-> e]

\* dict.get(key, default)
Get(d, key, default) == IF key \in DOMAIN d THEN d[key] ELSE default

\* ---------------------------------------------------------------- enums
PeriodTypeValues == {"DAY", "MONTH", "YEAR", "YEAR_TO_DATE"}
FrequencyTypeValues == {"MINUTE", "DAILY", "WEEKLY", "MONTHLY"}
StrategyTypeValues == {"SINGLE", "STRADDLE"}
ContractTypeValues == {"ALL", "CALL"}
OptionRangeValues == {"ALL", "ITM"}
MarketsValues == {"EQUITY", "BOND"}

\* Enum.all_values(): the wire strings of the members
all_values(values) == {Str(t) : t \in values}

\* Enum.value_mapping(): wire string -> member
value_mapping(values) == [key \in all_values(values) |-> Member(key.s[1])]

\* BaseApiModel.validate_str_enum
validate_str_enum(v, values) ==
    IF isinstance_Enum(v) THEN Ok(value(v))
    ELSE IF isinstance_str(v) /\ v \in all_values(values) THEN Ok(v)
    ELSE ValueError("InvalidEnumValue")

MsPerDay == 86400000

\* td.utils.helpers.convert_to_unix_time_ms
convert_to_unix_time_ms(v) ==
    IF v.k = "date" THEN IntV(v.n * MsPerDay) ELSE v

\* ---------------------------------------------------------------- engine
\* One field of the record has been handled with outcome r: a value is
\* stored in info.data, a ValueError is collected and the field left out,
\* any other exception leaves the constructor at once.
\* the engine, were a validation failure to end the record at once
Apply_abort_on_error(field, r, next) ==
    /\ pc' = IF r.st \in {"crash", "err"} THEN "done" ELSE next
    /\ data' = IF r.st = "ok" THEN (field :> r.val) @@ data ELSE data
    /\ errors' = IF r.st = "err"
                 THEN Append(errors, [loc |-> field, type |-> r.err])
                 ELSE errors
    /\ crash' = IF r.st = "crash" THEN r.err ELSE crash
    /\ UNCHANGED <<model, raw>>

Apply(field, r, next) ==
    /\ pc' = IF r.st = "crash" THEN "done" ELSE next
    /\ data' = IF r.st = "ok" THEN (field :> r.val) @@ data ELSE data
    /\ errors' = IF r.st = "err"
                 THEN Append(errors, [loc |-> field, type |-> r.err])
                 ELSE errors
    /\ crash' = IF r.st = "crash" THEN r.err ELSE crash
    /\ UNCHANGED <<model, raw>>

Supplied(field) == raw[field].k # "absent"

\* ---------------------------------------------------------------- PriceHistoryQuery
validate_period_type(period_type) == validate_str_enum(period_type, PeriodTypeValues)

validate_frequency_type_str(frequency_type) ==
    validate_str_enum(frequency_type, FrequencyTypeValues)

\* the period table with the MONTH row of the DAY row's shape
valid_periods_by_period_type_month_row ==
    (Member("DAY") :> {1, 2, 3, 4, 5, 10}) @@
    (Member("MONTH") :> {1, 2, 3, 4}) @@
    (Member("YEAR") :> {1, 2, 3, 5, 10, 15, 20}) @@
    (Member("YEAR_TO_DATE") :> {1})

valid_periods_by_period_type ==
    (Member("DAY") :> {1, 2, 3, 4, 5, 10}) @@
    (Member("MONTH") :> {1, 2, 3, 6}) @@
    (Member("YEAR") :> {1, 2, 3, 5, 10, 15, 20}) @@
    (Member("YEAR_TO_DATE") :> {1})

validate_period(period, info_data) ==
    LET got == Get(info_data, "period_type", None)
        period_type == IF isinstance_Enum(got) THEN value(got) ELSE got
    IN  IF period_type \notin DOMAIN value_mapping(PeriodTypeValues)
        THEN Raise("KeyError")
        ELSE IF period.k # "int" \/
                period.n \notin
                  valid_periods_by_period_type[value_mapping(PeriodTypeValues)[period_type]]
             THEN ValueError("IncompatiblePeriod")
             ELSE Ok(period)

\* the frequency-type table with MONTHLY also allowed for MONTH
valid_frequency_types_by_period_type_month_monthly ==
    (Member("DAY") :> {Member("MINUTE")}) @@
    (Member("MONTH") :> {Member("DAILY"), Member("WEEKLY"), Member("MONTHLY")}) @@
    (Member("YEAR") :> {Member("DAILY"), Member("WEEKLY"), Member("MONTHLY")}) @@
    (Member("YEAR_TO_DATE") :> {Member("DAILY"), Member("WEEKLY")})

valid_frequency_types_by_period_type ==
    (Member("DAY") :> {Member("MINUTE")}) @@
    (Member("MONTH") :> {Member("DAILY"), Member("WEEKLY")}) @@
    (Member("YEAR") :> {Member("DAILY"), Member("WEEKLY"), Member("MONTHLY")}) @@
    (Member("YEAR_TO_DATE") :> {Member("DAILY"), Member("WEEKLY")})

validate_frequency_type(frequency_type_in, info_data) ==
    LET got == Get(info_data, "period_type", None)
        period_type == IF isinstance_Enum(got) THEN value(got) ELSE got
    IN  IF isinstance_str(frequency_type_in) /\
           frequency_type_in \notin DOMAIN value_mapping(FrequencyTypeValues)
        THEN Raise("KeyError")
        ELSE LET frequency_type ==
                    IF isinstance_str(frequency_type_in)
                    THEN value_mapping(FrequencyTypeValues)[frequency_type_in]
                    ELSE frequency_type_in
             IN  IF period_type \notin DOMAIN value_mapping(PeriodTypeValues)
                 THEN Raise("KeyError")
                 ELSE IF frequency_type \notin
                           valid_frequency_types_by_period_type[
                               value_mapping(PeriodTypeValues)[period_type]]
                      THEN ValueError("IncompatibleFrequencyType")
                      ELSE Ok(frequency_type)

valid_frequencies_by_frequency_type ==
    (Member("MINUTE") :> {1, 5, 10, 15, 30}) @@
    (Member("DAILY") :> {1}) @@
    (Member("WEEKLY") :> {1}) @@
    (Member("MONTHLY") :> {1})

\* validate_frequency, were it to look up MINUTE whatever frequency_type holds
validate_frequency_always_minute(frequency, info_data) ==
    IF frequency.k # "int" \/
       frequency.n \notin valid_frequencies_by_frequency_type[Member("MINUTE")]
    THEN ValueError("IncompatibleFrequency")
    ELSE Ok(frequency)

validate_frequency(frequency, info_data) ==
    LET got == Get(info_data, "frequency_type", Member("MINUTE"))
        frequency_type == IF isinstance_Enum(got) THEN value(got) ELSE got
    IN  IF frequency_type \notin DOMAIN value_mapping(FrequencyTypeValues)
        THEN Raise("KeyError")
        ELSE IF frequency.k # "int" \/
                frequency.n \notin
                  valid_frequencies_by_frequency_type[
                      value_mapping(FrequencyTypeValues)[frequency_type]]
             THEN ValueError("IncompatibleFrequency")
             ELSE Ok(frequency)

validate_dates_period(v, info_data) ==
    IF /\ "start_date" \in DOMAIN info_data
       /\ "end_date" \in DOMAIN info_data
       /\ "period" \in DOMAIN info_data
    THEN ValueError("ConflictingDateRange")
    ELSE Ok(v)

validate_dates(v) == Ok(convert_to_unix_time_ms(v))

\* the validators of one field run in definition order, each on the value
\* the one before it returned; the first to raise ends the field
frequency_type_validators(v, info_data) ==
    LET first == validate_frequency_type_str(v)
    IN  IF first.st = "ok" THEN validate_frequency_type(first.val, info_data) ELSE first

date_validators(v, info_data) ==
    LET first == validate_dates_period(v, info_data)
    IN  IF first.st = "ok" THEN validate_dates(first.val) ELSE first

\* the fields of PriceHistoryQuery, in declared order, with their defaults
PH_period_type ==
    /\ model = "PriceHistoryQuery" /\ pc = "period_type"
    /\ Apply("period_type",
             IF Supplied("period_type")
             THEN validate_period_type(raw.period_type)
             ELSE Ok(Member("DAY")),
             "period")

PH_period ==
    /\ model = "PriceHistoryQuery" /\ pc = "period"
    /\ Apply("period",
             IF Supplied("period") THEN validate_period(raw.period, data) ELSE Ok(None),
             "frequency_type")

PH_frequency_type ==
    /\ model = "PriceHistoryQuery" /\ pc = "frequency_type"
    /\ Apply("frequency_type",
             IF Supplied("frequency_type")
             THEN frequency_type_validators(raw.frequency_type, data)
             ELSE Ok(None),
             "frequency")

PH_frequency ==
    /\ model = "PriceHistoryQuery" /\ pc = "frequency"
    /\ Apply("frequency",
             IF Supplied("frequency")
             THEN validate_frequency(raw.frequency, data)
             ELSE Ok(None),
             "start_date")

PH_start_date ==
    /\ model = "PriceHistoryQuery" /\ pc = "start_date"
    /\ Apply("start_date",
             IF Supplied("start_date")
             THEN date_validators(raw.start_date, data)
             ELSE Ok(None),
             "end_date")

PH_end_date ==
    /\ model = "PriceHistoryQuery" /\ pc = "end_date"
    /\ Apply("end_date",
             IF Supplied("end_date")
             THEN date_validators(raw.end_date, data)
             ELSE Ok(None),
             "done")

\* ---------------------------------------------------------------- OptionChainQuery
validate_contract_type(contract_type) == validate_str_enum(contract_type, ContractTypeValues)

validate_strategy(strategy) == validate_str_enum(strategy, StrategyTypeValues)

validate_option_range(option_range) == validate_str_enum(option_range, OptionRangeValues)

\* validate_strategy_fields without the unwrapping of an enum member
validate_strategy_fields_no_unwrap(v, info_data) ==
    LET strategy == Get(info_data, "strategy", None)
    IN  IF strategy = Str("SINGLE") /\ v # None
        THEN ValueError("FieldNotAllowedForStrategy")
        ELSE Ok(v)

validate_strategy_fields(v, info_data) ==
    LET got == Get(info_data, "strategy", None)
        strategy == IF isinstance_Enum(got) THEN value(got) ELSE got
    IN  IF strategy = Str("SINGLE") /\ v # None
        THEN ValueError("FieldNotAllowedForStrategy")
        ELSE Ok(v)

\* the fields of OptionChainQuery that carry an enum default or the strategy
\* rule, in declared order
OC_contract_type ==
    /\ model = "OptionChainQuery" /\ pc = "contract_type"
    /\ Apply("contract_type",
             IF Supplied("contract_type")
             THEN validate_contract_type(raw.contract_type)
             ELSE Ok(Member("ALL")),
             "strategy")

OC_strategy ==
    /\ model = "OptionChainQuery" /\ pc = "strategy"
    /\ Apply("strategy",
             IF Supplied("strategy")
             THEN validate_strategy(raw.strategy)
             ELSE Ok(Member("SINGLE")),
             "option_range")

OC_option_range ==
    /\ model = "OptionChainQuery" /\ pc = "option_range"
    /\ Apply("option_range",
             IF Supplied("option_range")
             THEN validate_option_range(raw.option_range)
             ELSE Ok(Member("ALL")),
             "volatility")

StrategyFields == <<"volatility", "underlying_price", "interest_rate", "days_to_expiration">>

OC_strategy_field ==
    /\ model = "OptionChainQuery"
    /\ \E i \in 1 .. Len(StrategyFields) :
          /\ pc = StrategyFields[i]
          /\ Apply(pc,
                   IF Supplied(pc) THEN validate_strategy_fields(raw[pc], data) ELSE Ok(None),
                   IF i < Len(StrategyFields) THEN StrategyFields[i + 1] ELSE "done")

\* ---------------------------------------------------------------- MarketHoursQuery
\* A string is a sequence of atoms; the atom "," is the delimiter.  A list
\* is [k |-> "list", s |-> its elements, n |-> 0].
ListV(l) == [k |-> "list", s |-> l, n |-> 0]

\* str.split(",")
RECURSIVE split(_)
split(a) ==
    IF \A i \in 1 .. Len(a) : a[i] # ","
    THEN <<a>>
    ELSE LET i == CHOOSE i \in 1 .. Len(a) : a[i] = "," /\ \A j \in 1 .. (i - 1) : a[j] # ","
         IN  <<SubSeq(a, 1, i - 1)>> \o split(SubSeq(a, i + 1, Len(a)))

\* ",".join(l) of a list of strings
RECURSIVE join(_)
join(l) ==
    IF l = << >> THEN << >>
    ELSE IF Len(l) = 1 THEN l[1].s
    ELSE l[1].s \o <<",">> \o join(Tail(l))

validate_markets(markets) ==
    LET all_markets == all_values(MarketsValues)
    IN  IF markets.k = "list"
        THEN IF \E i \in 1 .. Len(markets.s) :
                    isinstance_str(markets.s[i]) /\ markets.s[i] \notin all_markets
             THEN ValueError("InvalidEnumValue")
             ELSE IF \E i \in 1 .. Len(markets.s) : ~isinstance_str(markets.s[i])
                  THEN Raise("TypeError")
                  ELSE Ok(Text(join(markets.s)))
        ELSE IF isinstance_str(markets)
        THEN LET markets_list == split(markets.s)
             IN  IF \E i \in 1 .. Len(markets_list) : Text(markets_list[i]) \notin all_markets
                 THEN ValueError("InvalidEnumValue")
                 ELSE Ok(markets)
        ELSE ValueError("InvalidDataType")

MH_markets ==
    /\ model = "MarketHoursQuery" /\ pc = "markets"
    /\ Apply("markets", validate_markets(raw.markets), "done")

\* ---------------------------------------------------------------- inputs
Periods == (1 .. MaxPeriod) \cup {10, 15, 20}
Frequencies == (1 .. MaxFrequency) \cup {5, 10, 15, 30}

EnumInputs(values) ==
    {Absent, Str("BOGUS")} \cup {Str(t) : t \in values} \cup {Member(t) : t \in values}

PriceHistoryInputs ==
    [period_type : EnumInputs(PeriodTypeValues),
     period : {Absent} \cup {IntV(p) : p \in Periods},
     frequency_type : EnumInputs(FrequencyTypeValues),
     frequency : {Absent} \cup {IntV(f) : f \in Frequencies},
     start_date : {Absent, DateV(1)},
     end_date : {Absent, IntV(2 * MsPerDay)}]

OptionalNumbers == {Absent, None, IntV(20)}

OptionChainInputs ==
    [contract_type : {Absent, Str("CALL"), Member("CALL")},
     strategy : EnumInputs(StrategyTypeValues),
     option_range : {Absent, Str("ITM"), Str("BOGUS")},
     volatility : OptionalNumbers,
     underlying_price : OptionalNumbers,
     interest_rate : OptionalNumbers,
     days_to_expiration : OptionalNumbers]

Atoms == {"EQUITY", "BOND", "FAKE", "equity", ","}

SeqsUpTo(S, len) == UNION {[1 .. m -> S] : m \in 0 .. len}

MarketElements == {Str(a) : a \in Atoms} \cup {Member(t) : t \in MarketsValues}

MarketHoursInputs ==
    [markets : {Text(a) : a \in SeqsUpTo(Atoms, MaxStrLen)} \cup
               {ListV(l) : l \in SeqsUpTo(MarketElements, MaxMarkets)}]

Init ==
    /\ \/ model = "PriceHistoryQuery" /\ raw \in PriceHistoryInputs /\ pc = "period_type"
       \/ model = "OptionChainQuery" /\ raw \in OptionChainInputs /\ pc = "contract_type"
       \/ model = "MarketHoursQuery" /\ raw \in MarketHoursInputs /\ pc = "markets"
    /\ data = << >>
    /\ errors = << >>
    /\ crash = "none"

Next ==
    \/ PH_period_type
    \/ PH_period
    \/ PH_frequency_type
    \/ PH_frequency
    \/ PH_start_date
    \/ PH_end_date
    \/ OC_contract_type
    \/ OC_strategy
    \/ OC_option_range
    \/ OC_strategy_field
    \/ MH_markets

Spec == Init /\ [][Next]_vars

\* ---------------------------------------------------------------- outcomes
Done == pc = "done"
\* the constructor returned a record or raised a ValidationError
Completed == Done /\ crash = "none"
Succeeded == Completed /\ errors = << >>
Reported(field, type) ==
    \E i \in 1 .. Len(errors) : errors[i] = [loc |-> field, type |-> type]
Rejected(field) == \E i \in 1 .. Len(errors) : errors[i].loc = field
Accepted(field) == field \in DOMAIN data /\ ~Rejected(field)

PriceHistoryFields ==
    <<"period_type", "period", "frequency_type", "frequency", "start_date", "end_date">>
Index(field) == CHOOSE i \in 1 .. Len(PriceHistoryFields) : PriceHistoryFields[i] = field
\* the caller's period_type names a member (as string or member) or is left
\* to the DAY default
PeriodTypeResolves ==
    Supplied("period_type") => raw.period_type.s[1] \in {"DAY", "MONTH", "YEAR", "YEAR_TO_DATE"}
ResolvedPeriodType == IF Supplied("period_type") THEN raw.period_type.s[1] ELSE "DAY"

\* ---------------------------------------------------------------- C3
C3_Periods ==
    [t \in {"DAY", "MONTH", "YEAR", "YEAR_TO_DATE"} |->
        CASE t = "DAY" -> {1, 2, 3, 4, 5, 10}
          [] t = "MONTH" -> {1, 2, 3, 6}
          [] t = "YEAR" -> {1, 2, 3, 5, 10, 15, 20}
          [] t = "YEAR_TO_DATE" -> {1}]

\* C3: for every resolved period_type (explicit or the DAY default) and every
\* supplied period, the period is accepted exactly when it is in the set of
\* that period type, and is otherwise rejected with IncompatiblePeriod; a
\* record with a period outside the set is never returned.
C3_PeriodLegality ==
    (/\ model = "PriceHistoryQuery" /\ PeriodTypeResolves /\ Supplied("period")
     /\ pc \notin {"period_type", "period"})
    => IF raw.period.n \in C3_Periods[ResolvedPeriodType]
       THEN Accepted("period") /\ data.period = raw.period
       ELSE /\ Reported("period", "IncompatiblePeriod")
            /\ "period" \notin DOMAIN data
            /\ ~Succeeded

C3_Witness ==
    /\ model = "PriceHistoryQuery" /\ Completed
    /\ raw.period_type = Str("MONTH") /\ raw.period = IntV(5)
    /\ Reported("period", "IncompatiblePeriod")

\* ---------------------------------------------------------------- C4
C4_FrequencyTypes ==
    [t \in {"DAY", "MONTH", "YEAR", "YEAR_TO_DATE"} |->
        CASE t = "DAY" -> {"MINUTE"}
          [] t = "MONTH" -> {"DAILY", "WEEKLY"}
          [] t = "YEAR" -> {"DAILY", "WEEKLY", "MONTHLY"}
          [] t = "YEAR_TO_DATE" -> {"DAILY", "WEEKLY"}]

FrequencyTypeNamed ==
    /\ Supplied("frequency_type")
    /\ raw.frequency_type.s[1] \in {"MINUTE", "DAILY", "WEEKLY", "MONTHLY"}

\* C4: for every resolved period_type and every supplied frequency_type
\* (string or enum member of the domain), the frequency type is accepted
\* exactly when it is in the set of that period type, and is otherwise
\* rejected with IncompatibleFrequencyType; MONTH with MONTHLY is rejected.
C4_FrequencyTypeLegality ==
    (/\ model = "PriceHistoryQuery" /\ PeriodTypeResolves /\ FrequencyTypeNamed
     /\ pc \notin {"period_type", "period", "frequency_type"})
    => IF raw.frequency_type.s[1] \in C4_FrequencyTypes[ResolvedPeriodType]
       THEN Accepted("frequency_type")
       ELSE /\ Reported("frequency_type", "IncompatibleFrequencyType")
            /\ "frequency_type" \notin DOMAIN data
            /\ ~Succeeded

C4_Witness ==
    /\ model = "PriceHistoryQuery" /\ Completed
    /\ raw.period_type = Member("MONTH") /\ raw.frequency_type = Str("MONTHLY")
    /\ Reported("frequency_type", "IncompatibleFrequencyType")

\* ---------------------------------------------------------------- C5
C5_Frequencies ==
    [t \in {"MINUTE", "DAILY", "WEEKLY", "MONTHLY"} |->
        IF t = "MINUTE" THEN {1, 5, 10, 15, 30} ELSE {1}]

FrequencyTypeLegal ==
    /\ PeriodTypeResolves
    /\ FrequencyTypeNamed
    /\ raw.frequency_type.s[1] \in C4_FrequencyTypes[ResolvedPeriodType]

\* C5: for every supplied, legal frequency_type and every supplied frequency,
\* the frequency is accepted exactly when it is in the set of that frequency
\* type, and is otherwise rejected with IncompatibleFrequency; the lookup
\* uses the value of frequency_type left by that field's validators.
C5_FrequencyLegality ==
    (/\ model = "PriceHistoryQuery" /\ FrequencyTypeLegal /\ Supplied("frequency")
     /\ pc \notin {"period_type", "period", "frequency_type", "frequency"})
    => /\ data.frequency_type.s = raw.frequency_type.s
       /\ IF raw.frequency.n \in C5_Frequencies[data.frequency_type.s[1]]
          THEN Accepted("frequency") /\ data.frequency = raw.frequency
          ELSE /\ Reported("frequency", "IncompatibleFrequency")
               /\ "frequency" \notin DOMAIN data
               /\ ~Succeeded

C5_Witness ==
    /\ model = "PriceHistoryQuery" /\ Completed
    /\ raw.period_type = Str("YEAR") /\ raw.frequency_type = Str("DAILY")
    /\ raw.frequency = IntV(5)
    /\ Reported("frequency", "IncompatibleFrequency")

\* ---------------------------------------------------------------- C6
StrategyResolvesTo(t) ==
    IF Supplied("strategy") THEN raw.strategy.s = <<t>> ELSE t = "SINGLE"

GatedFields == {"volatility", "underlying_price", "interest_rate", "days_to_expiration"}
IsSet(field) == Supplied(field) /\ raw[field] # None

\* C6: when strategy resolves to SINGLE (string, enum member or default),
\* each of volatility, underlying_price, interest_rate, days_to_expiration
\* that is set to a non-None value is rejected with
\* FieldNotAllowedForStrategy, and with all four None none is rejected and
\* the record is returned; under STRADDLE the four fields may be set.
C6_StrategyGatedFields ==
    (model = "OptionChainQuery" /\ Done)
    => /\ Completed
       /\ StrategyResolvesTo("SINGLE") =>
            /\ \A f \in GatedFields :
                  IF IsSet(f)
                  THEN Reported(f, "FieldNotAllowedForStrategy") /\ f \notin DOMAIN data
                  ELSE Accepted(f) /\ data[f] = None
            /\ ((\A f \in GatedFields : ~IsSet(f)) /\ raw.option_range # Str("BOGUS"))
                  => Succeeded
            /\ (\E f \in GatedFields : IsSet(f)) => ~Succeeded
       /\ StrategyResolvesTo("STRADDLE") =>
            /\ \A f \in GatedFields :
                  Accepted(f) /\ data[f] = (IF Supplied(f) THEN raw[f] ELSE None)
            /\ raw.option_range # Str("BOGUS") => Succeeded

C6_Witness ==
    /\ model = "OptionChainQuery" /\ Done
    /\ ~Supplied("strategy") /\ raw.volatility = IntV(20)
    /\ Reported("volatility", "FieldNotAllowedForStrategy")

\* ---------------------------------------------------------------- C9
\* C9 as stated: validation of one record short-circuits, the first failing
\* rule aborts validation of the record, so only the first violation is
\* reported and no later rule is evaluated.
C9_ShortCircuit ==
    model = "PriceHistoryQuery" => Len(errors) <= 1

\* C9 amended: the fields are validated in declared order, each field's
\* normalization and rule at that field's turn; a failing rule drops only
\* its own field from the validated data, every later field is still
\* evaluated and the violations are collected in field order; only an
\* exception that is not a validation failure ends the record at once.
C9_FieldOrder ==
    model = "PriceHistoryQuery"
    => /\ \A i, j \in 1 .. Len(errors) :
             i < j => Index(errors[i].loc) < Index(errors[j].loc)
       /\ \A f \in DOMAIN data : ~Rejected(f)
       /\ crash = "none" =>
             \A i \in 1 .. Len(PriceHistoryFields) :
                (Done \/ i < Index(pc))
                => (PriceHistoryFields[i] \in DOMAIN data \/ Rejected(PriceHistoryFields[i]))
       /\ crash # "none" => Done

C9_Witness ==
    /\ model = "PriceHistoryQuery" /\ Completed
    /\ raw.period_type = Str("DAY") /\ raw.period = IntV(7)
    /\ raw.frequency_type = Str("MONTHLY") /\ raw.frequency = IntV(2)
    /\ Len(errors) = 3
    /\ "end_date" \in DOMAIN data

\* ---------------------------------------------------------------- C1
\* C1: period set together with both start_date and end_date fails with
\* ConflictingDateRange; period alone, or start_date/end_date without
\* period, does not.
C1_PeriodOrRange ==
    (model = "PriceHistoryQuery" /\ Completed)
    => IF Supplied("period") /\ Supplied("start_date") /\ Supplied("end_date")
       THEN \E f \in {"start_date", "end_date"} : Reported(f, "ConflictingDateRange")
       ELSE \A f \in {"start_date", "end_date"} : ~Reported(f, "ConflictingDateRange")

\* ---------------------------------------------------------------- C2
\* C2: with frequency supplied and frequency_type absent, frequency_type
\* defaults to MINUTE before the lookup: the frequency is accepted exactly
\* when it is in {1,5,10,15,30} and otherwise fails with
\* IncompatibleFrequency.
C2_DefaultMinute ==
    (/\ model = "PriceHistoryQuery" /\ PeriodTypeResolves
     /\ Supplied("frequency") /\ ~Supplied("frequency_type")
     /\ Done)
    => /\ Completed
       /\ IF raw.frequency.n \in {1, 5, 10, 15, 30}
          THEN Accepted("frequency")
          ELSE Reported("frequency", "IncompatibleFrequency")

\* ---------------------------------------------------------------- C7
\* the elements of the caller's markets, whatever its shape
MarketElementsOf(markets) ==
    IF markets.k = "list" THEN markets.s
    ELSE [i \in 1 .. Len(split(markets.s)) |-> Text(split(markets.s)[i])]

KnownMarket(e) == Len(e.s) = 1 /\ e.s[1] \in {"EQUITY", "BOND"}

\* C7: markets given as one comma-delimited string or as a sequence of
\* strings or Markets members: if every element is a known code the result
\* is the comma-joined string of the codes, whatever the shape, and if an
\* element is not a known code validation fails with InvalidEnumValue.
C7_MarketsNormalized ==
    (model = "MarketHoursQuery" /\ Done)
    => LET elems == MarketElementsOf(raw.markets)
       IN  IF \A i \in 1 .. Len(elems) : KnownMarket(elems[i])
           THEN Succeeded /\ data.markets = Text(join(elems))
           ELSE Completed /\ Reported("markets", "InvalidEnumValue")

\* ---------------------------------------------------------------- C8
\* C8: once validation succeeds every enum-typed field, also one left at
\* its default and frequency_type after both of its validators, holds the
\* wire string and not an enum member, and markets holds a single string.
C8_CanonicalFields ==
    Succeeded => \A f \in DOMAIN data : data[f].k \in {"str", "int", "none"}

\* ---------------------------------------------------------------- C10
\* C10: every cross-field validator of PriceHistoryQuery and
\* OptionChainQuery either accepts or raises a validation failure: no
\* lookup is made with a controlling value that is missing from the table.
C10_NoLookupFailure ==
    model \in {"PriceHistoryQuery", "OptionChainQuery"} => crash = "none"
====
